---- MODULE Spec2Model ----
(***************************************************************************)
(* A model of the manuscript store (manuscripts.py, class ManuscriptDB)   *)
(* and of the entry dialog of its desktop form (app.py, ManuscriptApp).   *)
(*                                                                         *)
(* Python values are modelled as follows.                                  *)
(*   - a dict is a function from its keys to its values; a record literal *)
(*     [title |-> "P1"] is the dict {"title": "P1"};                       *)
(*   - a list is a sequence;                                                *)
(*   - the records held by a store are dict OBJECTS: a store's list holds  *)
(*     references into `heap`, because add() appends the reference it is   *)
(*     given and edit() updates the referenced object in place;            *)
(*   - a JSON text is the sequence of its lexical tokens (punctuation and  *)
(*     string literals); whitespace, which json.loads skips and which      *)
(*     indent=2 only adds between tokens, is not represented.              *)
(***************************************************************************)
EXTENDS Integers, Sequences, FiniteSets, TLC

VARIABLES
    heap,     \* the dict objects of the process: reference -> dict
    data,     \* data[s]: self.data of store instance s, a list of references
    file,     \* the backing file: [exists, content]
    op,       \* the last call made: [name, self, args]
    ret,      \* what that call did: [exc, val]
    dlg,      \* the entry dialog of the form
    listbox   \* the titles shown by the form's listbox

vars == <<heap, data, file, op, ret, dlg, listbox>>

----------------------------------------------------------------------------
(* Bounds *)

\* The longest list a store is let grow to.
MaxLen == 2

----------------------------------------------------------------------------
(* Python values *)

\* Python's None, as an argument or as the value of dict.get on a missing key.
None == "<None>"

\* bool(x) for x a str or None.
Truthy(x) == x # None /\ x # ""

\* d.get(k): the value under k, None when the key is missing.
Get(d, k) == IF k \in DOMAIN d THEN d[k] ELSE None

\* entry.get(k, []): the list under k, the empty list when the key is missing.
GetList(d, k) == IF k \in DOMAIN d THEN d[k] ELSE <<>>

\* d.update(u) on a copy: every key of u overwrites or is added, the rest stay.
Update(d, u) ==
    [k \in (DOMAIN d) \cup (DOMAIN u) |-> IF k \in DOMAIN u THEN u[k] ELSE d[k]]

\* The elements of list q.
Elems(q) == {q[i] : i \in 1..Len(q)}

\* The empty dict {}.
EmptyDict == [k \in {} |-> None]

\* The order of code points on the strings used as names; sorted() follows it.
NameOrder == <<"", "Acc", "D1", "D2", "F1", "M1", "M2", "New", "P1", "P2", "P3">>

Rank(s) == CHOOSE i \in 1..Len(NameOrder) : NameOrder[i] = s

\* sorted(S) for a set S of strings.
RECURSIVE Sorted(_)
Sorted(S) ==
    IF S = {} THEN <<>>
    ELSE LET least == CHOOSE x \in S : \A y \in S : Rank(x) <= Rank(y)
         IN  <<least>> \o Sorted(S \ {least})

----------------------------------------------------------------------------
(* JSON: json.dump and json.loads over token sequences *)

Punct(c) == [k |-> "punct", v |-> c]
Str(s) == [k |-> "str", v |-> s]

\* The keys of a record whose value is a string; every other key of a
\* record holds a list of sub-entry dicts, whose values are strings.
StrKeys == {"title"}

\* The order in which a dict's keys are written (a dict keeps insertion
\* order; dict equality does not depend on it).
KeyOrder == <<"title", "methods", "datasets", "metrics">>
SubKeyOrder == <<"model_name", "name", "type">>

\* The keys of dict d in the order they are written.
KeysOf(d, order) == SelectSeq(order, LAMBDA k : k \in DOMAIN d)

\* Items joined by commas.
RECURSIVE Join(_)
Join(parts) ==
    IF parts = <<>> THEN <<>>
    ELSE IF Len(parts) = 1 THEN parts[1]
    ELSE parts[1] \o <<Punct(",")>> \o Join(Tail(parts))

\* json.dumps of a sub-entry dict: {"key": "value", ...}
DumpSub(m) ==
    LET ks == KeysOf(m, SubKeyOrder)
    IN  <<Punct("{")>>
        \o Join([i \in 1..Len(ks) |-> <<Str(ks[i]), Punct(":"), Str(m[ks[i]])>>])
        \o <<Punct("}")>>

\* json.dumps of a list of sub-entry dicts.
DumpSubList(l) ==
    <<Punct("[")>> \o Join([i \in 1..Len(l) |-> DumpSub(l[i])]) \o <<Punct("]")>>

\* json.dumps of one record.
DumpEntry(e) ==
    LET ks == KeysOf(e, KeyOrder)
    IN  <<Punct("{")>>
        \o Join([i \in 1..Len(ks) |->
                  <<Str(ks[i]), Punct(":")>>
                  \o (IF ks[i] \in StrKeys THEN <<Str(e[ks[i]])>>
                      ELSE DumpSubList(e[ks[i]]))])
        \o <<Punct("}")>>

\* json.dump(self.data, f, indent=2, ensure_ascii=False): the text of a list
\* of records.
JsonDump(l) ==
    <<Punct("[")>> \o Join([i \in 1..Len(l) |-> DumpEntry(l[i])]) \o <<Punct("]")>>

\* json.loads, by recursive descent.  Each Parse operator reads one
\* construct of text t from position i and yields [ok, val, pos]: whether it
\* parsed, the Python value, and the position after it.
Fail == [ok |-> FALSE, val |-> None, pos |-> 0]

IsPunct(t, i, c) == i <= Len(t) /\ t[i] = Punct(c)

RECURSIVE ParseValue(_, _), ParseItems(_, _, _), ParseMembers(_, _, _)

\* A value: a string, an array or an object.
ParseValue(t, i) ==
    IF i > Len(t) THEN Fail
    ELSE IF t[i].k = "str" THEN [ok |-> TRUE, val |-> t[i].v, pos |-> i + 1]
    ELSE IF t[i] = Punct("[") THEN
        IF IsPunct(t, i + 1, "]") THEN [ok |-> TRUE, val |-> <<>>, pos |-> i + 2]
        ELSE ParseItems(t, i + 1, <<>>)
    ELSE IF t[i] = Punct("{") THEN
        IF IsPunct(t, i + 1, "}") THEN [ok |-> TRUE, val |-> EmptyDict, pos |-> i + 2]
        ELSE ParseMembers(t, i + 1, EmptyDict)
    ELSE Fail

\* The items of a non-empty array, up to and including its "]".
ParseItems(t, i, acc) ==
    LET item == ParseValue(t, i)
    IN  IF ~item.ok THEN Fail
        ELSE IF IsPunct(t, item.pos, ",")
             THEN ParseItems(t, item.pos + 1, Append(acc, item.val))
        ELSE IF IsPunct(t, item.pos, "]")
             THEN [ok |-> TRUE, val |-> Append(acc, item.val), pos |-> item.pos + 1]
        ELSE Fail

\* The members of a non-empty object, up to and including its "}"; a key
\* that repeats keeps its last value.
ParseMembers(t, i, acc) ==
    IF ~(i + 1 <= Len(t) /\ t[i].k = "str" /\ t[i + 1] = Punct(":")) THEN Fail
    ELSE LET item == ParseValue(t, i + 2)
         IN  IF ~item.ok THEN Fail
             ELSE LET now == Update(acc, [k \in {t[i].v} |-> item.val])
                  IN  IF IsPunct(t, item.pos, ",")
                      THEN ParseMembers(t, item.pos + 1, now)
                      ELSE IF IsPunct(t, item.pos, "}")
                      THEN [ok |-> TRUE, val |-> now, pos |-> item.pos + 1]
                      ELSE Fail

\* json.loads(text): [ok, val]; ok is FALSE where json.loads raises
\* JSONDecodeError (no value, or text left over after the value).
JsonLoads(t) ==
    LET r == ParseValue(t, 1)
    IN  IF r.ok /\ r.pos = Len(t) + 1 THEN [ok |-> TRUE, val |-> r.val]
        ELSE [ok |-> FALSE, val |-> None]

----------------------------------------------------------------------------
(* The heap of dict objects *)

\* The reference given to the next object created.
NewRef(h) == CHOOSE n \in 1..(Cardinality(DOMAIN h) + 1) :
                 n \notin DOMAIN h /\ \A m \in 1..(n - 1) : m \in DOMAIN h

\* Heap h with a new object of value e.
New(h, e) == [r \in (DOMAIN h) \cup {NewRef(h)} |-> IF r \in DOMAIN h THEN h[r] ELSE e]

\* The parsed records l become objects: [heap, refs], the heap after and the
\* list of the references to the new objects.
RECURSIVE Alloc(_, _, _)
Alloc(h, l, refs) ==
    IF l = <<>> THEN [heap |-> h, refs |-> refs]
    ELSE Alloc(New(h, Head(l)), Tail(l), Append(refs, NewRef(h)))

\* The objects no list of any store refers to are reclaimed.
Collect(h, d) ==
    [r \in {x \in DOMAIN h : \E s \in DOMAIN d : \E j \in 1..Len(d[s]) : d[s][j] = x}
        |-> h[r]]

----------------------------------------------------------------------------
(* ManuscriptDB *)

\* The file before it is first written.
Absent == [exists |-> FALSE, content |-> <<>>]

\* ManuscriptDB._load: the parsed list of the file, [] when the file is
\* missing or blank.
load(f) ==
    IF f.exists /\ f.content # <<>> THEN JsonLoads(f.content).val ELSE <<>>

\* ManuscriptDB.list: self.data, seen as the list of the records' values.
List(h, l) == [j \in 1..Len(l) |-> h[l[j]]]

\* ManuscriptDB._save: open(self.path, "w") empties file f, and json.dump
\* writes the whole list into it.
saveAppending(f, h, l) ==
    [exists |-> TRUE, content |-> f.content \o JsonDump(List(h, l))]
saveAllButLast(f, h, l) ==
    [exists |-> TRUE, content |-> JsonDump(SubSeq(List(h, l), 1, Len(l) - 1))]
save(f, h, l) == [exists |-> TRUE, content |-> JsonDump(List(h, l))]

\* The test edit and delete make of their index (0-based).
OutOfRangeAsPython(l, index) == index < -Len(l) \/ index >= Len(l)
OutOfRange(l, index) == index < 0 \/ index >= Len(l)

\* The position (1-based) of l[index] for an index Python accepts: a
\* negative index counts from the end.
Pos(l, index) == IF index < 0 THEN Len(l) + index + 1 ELSE index + 1

\* self.data.append(entry)
appendFront(l, ref) == <<ref>> \o l
append(l, ref) == Append(l, ref)

\* self.data[index].update(updates): the heap after.
update(h, l, index, updates) ==
    [h EXCEPT ![l[Pos(l, index)]] = Update(@, updates)]

\* self.data.pop(index): the list after.
popLast(l, index) == SubSeq(l, 1, Len(l) - 1)
pop(l, index) ==
    SubSeq(l, 1, Pos(l, index) - 1) \o SubSeq(l, Pos(l, index) + 1, Len(l))

\* ManuscriptDB.add(entry), entry being a dict the caller has just built.
add(s, entry) ==
    LET h == New(heap, entry)
        l == append(data[s], NewRef(heap))
    IN  /\ heap' = h
        /\ data' = [data EXCEPT ![s] = l]
        /\ file' = save(file, h, l)

\* ManuscriptDB.add(entry), entry being the dict object the store already
\* holds at index i (the caller kept the reference, or took it from list()).
addSame(s, i) ==
    LET l == append(data[s], data[s][i + 1])
    IN  /\ data' = [data EXCEPT ![s] = l]
        /\ file' = save(file, heap, l)
        /\ UNCHANGED heap

\* ManuscriptDB.edit(index, updates); exc is the exception it raises, "" when
\* it returns.
edit(s, index, updates, exc) ==
    IF OutOfRange(data[s], index)
    THEN /\ exc = "IndexError"
         /\ UNCHANGED <<heap, data, file>>
    ELSE /\ exc = ""
         /\ heap' = update(heap, data[s], index, updates)
         /\ file' = save(file, heap', data[s])
         /\ UNCHANGED data

\* ManuscriptDB.delete(index); exc as for edit.
delete(s, index, exc) ==
    IF OutOfRange(data[s], index)
    THEN /\ exc = "IndexError"
         /\ UNCHANGED <<heap, data, file>>
    ELSE /\ exc = ""
         /\ data' = [data EXCEPT ![s] = pop(@, index)]
         /\ heap' = Collect(heap, data')
         /\ file' = save(file, heap, data'[s])

\* What a call that returns normally, and one that raises, leave in ret.
Returned(v) == [exc |-> "", val |-> v]
Raised(e) == [exc |-> e, val |-> None]
Exceptions == {"", "IndexError"}

\* A caller's call of add with a new dict.
Add(s, entry) ==
    /\ Len(data[s]) < MaxLen
    /\ add(s, entry)
    /\ op' = [name |-> "add", self |-> s, args |-> [entry |-> entry]]
    /\ ret' = Returned(None)
    /\ UNCHANGED <<dlg, listbox>>

\* A caller's call of add with the dict object at index i of the store.
AddSame(s, i) ==
    /\ Len(data[s]) < MaxLen
    /\ i \in 0..(Len(data[s]) - 1)
    /\ addSame(s, i)
    /\ op' = [name |-> "add", self |-> s, args |-> [entry |-> heap[data[s][i + 1]]]]
    /\ ret' = Returned(None)
    /\ UNCHANGED <<dlg, listbox>>

\* A caller's call of edit.
Edit(s, index, updates) ==
    /\ \E exc \in Exceptions :
           /\ edit(s, index, updates, exc)
           /\ ret' = [exc |-> exc, val |-> None]
    /\ op' = [name |-> "edit", self |-> s,
              args |-> [index |-> index, updates |-> updates]]
    /\ UNCHANGED <<dlg, listbox>>

\* A caller's call of delete.
Delete(s, index) ==
    /\ \E exc \in Exceptions :
           /\ delete(s, index, exc)
           /\ ret' = [exc |-> exc, val |-> None]
    /\ op' = [name |-> "delete", self |-> s, args |-> [index |-> index]]
    /\ UNCHANGED <<dlg, listbox>>

\* any(m.get(key) == x for m in subs)
anyByName(subs, key, x) == \E j \in 1..Len(subs) : Get(subs[j], "name") = x
any(subs, key, x) == \E j \in 1..Len(subs) : Get(subs[j], key) = x

\* The flag `match` of filter's loop body for one entry: each argument that
\* is truthy and names no sub-entry of its list clears it.
matchModelOnly(entry, model, dataset, metric) ==
    ~(Truthy(model) /\ ~any(GetList(entry, "methods"), "model_name", model))
match(entry, model, dataset, metric) ==
    LET m1 == IF Truthy(model)
                 /\ ~any(GetList(entry, "methods"), "model_name", model)
              THEN FALSE ELSE TRUE
        m2 == IF Truthy(dataset)
                 /\ ~any(GetList(entry, "datasets"), "name", dataset)
              THEN FALSE ELSE m1
        m3 == IF Truthy(metric)
                 /\ ~any(GetList(entry, "metrics"), "name", metric)
              THEN FALSE ELSE m2
    IN  m3

\* ManuscriptDB.filter: the loop over self.data from position j on, results
\* being the entries (references) appended so far.
RECURSIVE filterLoop(_, _, _, _, _, _, _)
filterLoop(h, l, j, results, model, dataset, metric) ==
    IF j > Len(l) THEN results
    ELSE filterLoop(h, l, j + 1,
                    IF match(h[l[j]], model, dataset, metric)
                    THEN Append(results, l[j]) ELSE results,
                    model, dataset, metric)

filter(h, l, model, dataset, metric) ==
    filterLoop(h, l, 1, <<>>, model, dataset, metric)

\* One of the three sets list_fields builds: the truthy values under key
\* nameKey of the sub-entries of list listKey of every entry.
namesNotNone(h, l, listKey, nameKey) ==
    UNION {{n \in {Get(GetList(h[l[j]], listKey)[q], nameKey) :
                      q \in 1..Len(GetList(h[l[j]], listKey))} : n # None} :
           j \in 1..Len(l)}
names(h, l, listKey, nameKey) ==
    UNION {{n \in {Get(GetList(h[l[j]], listKey)[q], nameKey) :
                      q \in 1..Len(GetList(h[l[j]], listKey))} : Truthy(n)} :
           j \in 1..Len(l)}

\* ManuscriptDB.list_fields
list_fields(h, l) ==
    [models   |-> Sorted(names(h, l, "methods", "model_name")),
     datasets |-> Sorted(names(h, l, "datasets", "name")),
     metrics  |-> Sorted(names(h, l, "metrics", "name"))]

\* A call of ManuscriptDB.filter.
Filter(s, model, dataset, metric) ==
    /\ op' = [name |-> "filter", self |-> s,
              args |-> [model |-> model, dataset |-> dataset, metric |-> metric]]
    /\ ret' = Returned(filter(heap, data[s], model, dataset, metric))
    /\ UNCHANGED <<heap, data, file, dlg, listbox>>

\* A call of ManuscriptDB.list_fields.
ListFields(s) ==
    /\ op' = [name |-> "list_fields", self |-> s, args |-> EmptyDict]
    /\ ret' = Returned(list_fields(heap, data[s]))
    /\ UNCHANGED <<heap, data, file, dlg, listbox>>

----------------------------------------------------------------------------
(* Inputs *)

\* The records of the repository's tests, and one with a title only.
P1 == [title |-> "P1", methods |-> <<[model_name |-> "M1"]>>,
       datasets |-> <<[name |-> "D1"]>>, metrics |-> <<[name |-> "Acc"]>>]
P2 == [title |-> "P2", methods |-> <<[model_name |-> "M2"]>>,
       datasets |-> <<[name |-> "D2"]>>, metrics |-> <<[name |-> "F1"]>>]
P3 == [title |-> "P3"]

Entries == {P2, P3}

\* The updates given to edit: none, a title, a nested list (replacing the
\* one of P1 and P2, new to P3).
UpdatesGiven ==
    {EmptyDict, [title |-> "New"], [methods |-> <<[model_name |-> "M2"]>>]}

\* The indices given to edit and delete: every valid one and both sides out
\* of range.
Indices == -1..MaxLen

\* The files a store is constructed from: missing, blank, or what a store
\* wrote before.
Blank == [exists |-> TRUE, content |-> <<>>]
InitFiles ==
    {Absent, Blank} \cup
    {[exists |-> TRUE, content |-> JsonDump(l)] : l \in {<<>>, <<P1>>, <<P2, P1>>}}

\* The form is not part of the store's specifications: no dialog is open.
NoDialog == [open |-> FALSE]
NoOp == [name |-> "init", self |-> 1, args |-> EmptyDict]

----------------------------------------------------------------------------
(* One store: construction, then any calls of add, edit and delete *)

Init ==
    /\ file \in InitFiles
    /\ LET a == Alloc(EmptyDict, load(file), <<>>)
       IN  /\ heap = a.heap
           /\ data = [s \in {1} |-> a.refs]
    /\ op = NoOp
    /\ ret = Returned(None)
    /\ dlg = NoDialog
    /\ listbox = <<>>

Next ==
    \/ \E e \in Entries : Add(1, e)
    \/ \E i \in Indices : AddSame(1, i)
    \/ \E i \in Indices, u \in UpdatesGiven : Edit(1, i, u)
    \/ \E i \in Indices : Delete(1, i)

Spec == Init /\ [][Next]_vars

----------------------------------------------------------------------------
(* One store and its queries: construction, then add, filter, list_fields *)

\* Records that have one of the three lists only: empty, with a sub-entry
\* that lacks the name key, with an empty name, with two names out of
\* order, with the name under the key of another list.
QueryEntries ==
    {P1, P2, P3}
    \cup {[title |-> "P3", methods |-> x] :
            x \in {<<>>, <<[type |-> "LLM"]>>, <<[model_name |-> ""]>>,
                   <<[model_name |-> "M2"], [model_name |-> "M1"]>>,
                   <<[name |-> "M1"]>>}}
    \cup {[title |-> "P3", datasets |-> x] :
            x \in {<<[name |-> ""]>>, <<[name |-> "D2"], [name |-> "D1"]>>}}
    \cup {[title |-> "P3", metrics |-> x] :
            x \in {<<[name |-> ""]>>, <<[name |-> "F1"], [name |-> "Acc"]>>}}

\* The arguments given to filter: absent, empty, names.
ModelArgs == {None, "", "M1", "M2"}
DatasetArgs == {None, "", "D1"}
MetricArgs == {None, "", "Acc"}

NextQuery ==
    \/ \E e \in QueryEntries : Add(1, e)
    \/ \E m \in ModelArgs, d \in DatasetArgs, mt \in MetricArgs : Filter(1, m, d, mt)
    \/ ListFields(1)

SpecQuery == Init /\ [][NextQuery]_vars

----------------------------------------------------------------------------
(* Two stores constructed from one file, then any calls on either *)

\* What is added and given as updates to either store.
TwoEntries == {P3}
TwoUpdates == {[title |-> "New"]}
TwoIndices == {0}
TwoFiles == {Absent, [exists |-> TRUE, content |-> JsonDump(<<P1>>)]}

InitTwo ==
    /\ file \in TwoFiles
    /\ LET a == Alloc(EmptyDict, load(file), <<>>)
           b == Alloc(a.heap, load(file), <<>>)
       IN  /\ heap = b.heap
           /\ data = [s \in {1, 2} |-> IF s = 1 THEN a.refs ELSE b.refs]
    /\ op = NoOp
    /\ ret = Returned(None)
    /\ dlg = NoDialog
    /\ listbox = <<>>

NextTwo ==
    \E s \in {1, 2} :
        \/ \E e \in TwoEntries : Add(s, e)
        \/ \E i \in TwoIndices, u \in TwoUpdates : Edit(s, i, u)
        \/ \E i \in TwoIndices : Delete(s, i)

SpecTwo == InitTwo /\ [][NextTwo]_vars

----------------------------------------------------------------------------
(* ManuscriptApp: the form over one store, and its entry dialog *)

\* The three fields of the dialog that hold JSON.
JsonFields == {"methods", "datasets", "metrics"}

\* ManuscriptApp._refresh_list: the listbox shows the title of every record.
refresh(h, l) ==
    [j \in 1..Len(l) |-> IF "title" \in DOMAIN h[l[j]] THEN h[l[j]].title
                         ELSE "<no title>"]

\* _entry_dialog(data) up to wait_window: the dialog is open, its widgets
\* hold what data populates them with (nothing when data is None), and
\* result is {}.
OpenDialog(caller, index, current) ==
    [open |-> TRUE, caller |-> caller, index |-> index,
     title |-> IF current = EmptyDict THEN ""
               ELSE IF "title" \in DOMAIN current THEN current.title ELSE "",
     texts |-> [f \in JsonFields |->
                  IF current = EmptyDict THEN <<>>
                  ELSE DumpSubList(GetList(current, f))],
     result |-> EmptyDict]

\* text.strip() or "[]"
orEmptyList(text) == IF text = <<>> THEN <<Punct("["), Punct("]")>> ELSE text

\* on_ok's dict display: whether its three json.loads all return, and the
\* dict result.update is then given.
loadsAll(texts) == \A f \in JsonFields : JsonLoads(orEmptyList(texts[f])).ok
display(title, texts) ==
    [k \in {"title"} \cup JsonFields |->
        IF k = "title" THEN title ELSE JsonLoads(orEmptyList(texts[k])).val]

\* result after an on_ok whose dict display raised JSONDecodeError:
\* result.update was not reached.
resultUpdatedInPart(result, title) == Update(result, [title |-> title])
resultOnError(result, title) == result

\* _add_entry and _edit_entry after _entry_dialog has returned: with a
\* result that is not empty the store is changed and the listbox refreshed.
Resume(d, result) ==
    IF result = EmptyDict
    THEN UNCHANGED <<heap, data, file, listbox>>
    ELSE IF d.caller = "add"
    THEN /\ add(1, result)
         /\ listbox' = refresh(heap', data'[1])
    ELSE \E exc \in Exceptions :
             /\ edit(1, d.index, result, exc)
             /\ listbox' = IF exc = "" THEN refresh(heap', data'[1]) ELSE listbox

\* The Add button: _add_entry opens the dialog.
AddEntry ==
    /\ ~dlg.open
    /\ Len(data[1]) < MaxLen
    /\ dlg' = OpenDialog("add", 0, EmptyDict)
    /\ op' = [name |-> "_add_entry", self |-> 1, args |-> EmptyDict]
    /\ ret' = Returned(None)
    /\ UNCHANGED <<heap, data, file, listbox>>

\* The Edit button with the entry at index selected: _edit_entry opens the
\* dialog on the record at index.
EditEntry(index) ==
    /\ ~dlg.open
    /\ index \in 0..(Len(listbox) - 1)
    /\ dlg' = OpenDialog("edit", index, heap[data[1][index + 1]])
    /\ op' = [name |-> "_edit_entry", self |-> 1, args |-> [index |-> index]]
    /\ ret' = Returned(None)
    /\ UNCHANGED <<heap, data, file, listbox>>

\* The Edit or Delete button with nothing selected: _selected_index shows
\* "Please select an entry first" and the handler returns.
NothingSelected(handler) ==
    /\ ~dlg.open
    /\ op' = [name |-> handler, self |-> 1, args |-> EmptyDict]
    /\ ret' = Returned("showinfo")
    /\ UNCHANGED <<heap, data, file, dlg, listbox>>

\* The Delete button with the entry at index selected; yes is the answer
\* to "Delete selected entry?".
DeleteEntry(index, yes) ==
    /\ ~dlg.open
    /\ index \in 0..(Len(listbox) - 1)
    /\ IF yes
       THEN \E exc \in Exceptions :
                /\ delete(1, index, exc)
                /\ listbox' = IF exc = "" THEN refresh(heap', data'[1]) ELSE listbox
       ELSE UNCHANGED <<heap, data, file, listbox>>
    /\ op' = [name |-> "_delete_entry", self |-> 1,
              args |-> [index |-> index, yes |-> yes]]
    /\ ret' = Returned(None)
    /\ UNCHANGED dlg

\* The dialog's OK button, the three JSON widgets holding texts: on_ok,
\* and, when it destroys the dialog, the rest of the handler that opened it.
OnOk(texts) ==
    /\ dlg.open
    /\ op' = [name |-> "on_ok", self |-> 1, args |-> texts]
    /\ IF loadsAll(texts)
       THEN /\ Resume(dlg, Update(dlg.result, display(dlg.title, texts)))
            /\ dlg' = NoDialog
            /\ ret' = Returned("destroy")
       ELSE /\ dlg' = [dlg EXCEPT !.result = resultOnError(dlg.result, dlg.title)]
            /\ ret' = Returned("showerror")
            /\ UNCHANGED <<heap, data, file, listbox>>

\* The dialog's Cancel button: on_cancel, then the rest of the handler that
\* opened the dialog, which gets `result if result else None`.
OnCancel ==
    /\ dlg.open
    /\ op' = [name |-> "on_cancel", self |-> 1, args |-> EmptyDict]
    /\ Resume(dlg, dlg.result)
    /\ dlg' = NoDialog
    /\ ret' = Returned("destroy")

\* The text a JSON widget can hold when OK is pressed: what the dialog put
\* there, or typed instead: nothing, "[]", or "[" (not JSON).
TypedTexts == {<<>>, <<Punct("["), Punct("]")>>, <<Punct("[")>>}
WidgetTexts ==
    IF dlg.open
    THEN [JsonFields -> TypedTexts]
         \cup {[dlg.texts EXCEPT ![f] = t] : f \in JsonFields, t \in TypedTexts}
         \cup {dlg.texts}
    ELSE {}

\* The file the form starts from: missing, or holding one record.
R0 == [title |-> "P1", methods |-> <<[model_name |-> "M1"]>>]
GuiFiles == {Absent, [exists |-> TRUE, content |-> JsonDump(<<R0>>)]}

\* ManuscriptApp.__init__: the store is constructed and the listbox filled.
InitGui ==
    /\ file \in GuiFiles
    /\ LET a == Alloc(EmptyDict, load(file), <<>>)
       IN  /\ heap = a.heap
           /\ data = [s \in {1} |-> a.refs]
           /\ listbox = refresh(a.heap, a.refs)
    /\ op = NoOp
    /\ ret = Returned(None)
    /\ dlg = NoDialog

NextGui ==
    \/ AddEntry
    \/ \E i \in Indices : EditEntry(i)
    \/ \E h \in {"_edit_entry", "_delete_entry"} : NothingSelected(h)
    \/ \E i \in Indices, yes \in BOOLEAN : DeleteEntry(i, yes)
    \/ \E texts \in WidgetTexts : OnOk(texts)
    \/ OnCancel

SpecGui == InitGui /\ [][NextGui]_vars

----------------------------------------------------------------------------
(* Claims about one store (Spec) *)

\* The call a step makes is op'; the list it is made on is List(heap, data[s]).
IsCall(o, name) == o.name = name
Succeeded(r) == r.exc = ""
ValidIndex(l, i) == 0 <= i /\ i < Len(l)

\* A fresh store constructed from file f gets list l: f is missing or blank
\* and l is empty, or f parses and its value is l.
Reloads(f, l) ==
    IF f.exists /\ f.content # <<>>
    THEN JsonLoads(f.content).ok /\ JsonLoads(f.content).val = l
    ELSE l = <<>>

\* C1: for every store state and every index i with i < 0 or i >= len,
\* edit(i, updates) and delete(i) each raise IndexError and leave the list in
\* memory (the references and the objects) and the file as they were.
C1_OutOfRangeFailsUnchanged ==
    [][(op'.name \in {"edit", "delete"}
        /\ ~ValidIndex(data[op'.self], op'.args.index))
       => /\ ret' = Raised("IndexError")
          /\ heap' = heap
          /\ data' = data
          /\ file' = file]_vars

\* An edit past the end of a list of two has just raised.
C1_Witness ==
    /\ IsCall(op, "edit")
    /\ Len(data[1]) = 2
    /\ op.args.index >= 2
    /\ ret.exc = "IndexError"

\* C2: after any sequence of add, edit and delete calls the file holds the
\* whole list in memory: a fresh store constructed from the file has a list
\* equal to this store's, element for element and in the same order.
C2_RoundTrip == Reloads(file, List(heap, data[1]))

\* An edit has just changed one of two records and the file was written.
C2_Witness ==
    /\ IsCall(op, "edit")
    /\ Succeeded(ret)
    /\ op.args.updates # EmptyDict
    /\ Len(data[1]) = 2
    /\ file.exists
    /\ Len(load(file)) = 2

\* C3: for every valid index i, delete(i) shortens the list by exactly one
\* and removes exactly the record at i: the records before i stay where they
\* were, those after i move down by one, and no record is altered.
C3_DeleteRemovesExactlyOne ==
    [][(IsCall(op', "delete") /\ ValidIndex(data[op'.self], op'.args.index))
       => LET s == op'.self
              i == op'.args.index + 1
              old == List(heap, data[s])
              new == List(heap', data'[s])
          IN  /\ Succeeded(ret')
              /\ Len(new) = Len(old) - 1
              /\ \A j \in 1..(i - 1) : new[j] = old[j] /\ data'[s][j] = data[s][j]
              /\ \A j \in (i + 1)..Len(old) :
                     new[j - 1] = old[j] /\ data'[s][j - 1] = data[s][j]]_vars

\* The first of two records has just been deleted and the second, a
\* different record, is now the first.
C3_Witness ==
    /\ IsCall(op, "delete")
    /\ Succeeded(ret)
    /\ op.args.index = 0
    /\ Len(data[1]) = 1
    /\ heap[data[1][1]].title = "P2"

\* C4, as claimed: for every valid index i and every updates, after
\* edit(i, updates) the record at i has the value of updates under each key
\* of updates and its previous value under every other key, and every other
\* record and the length of the list are unchanged.
C4_EditChangesOnlyTheRecordAtIndex ==
    [][(IsCall(op', "edit") /\ ValidIndex(data[op'.self], op'.args.index))
       => LET s == op'.self
              i == op'.args.index + 1
              u == op'.args.updates
              old == List(heap, data[s])
              new == List(heap', data'[s])
          IN  /\ Succeeded(ret')
              /\ Len(new) = Len(old)
              /\ DOMAIN new[i] = (DOMAIN old[i]) \cup (DOMAIN u)
              /\ \A k \in DOMAIN u : new[i][k] = u[k]
              /\ \A k \in (DOMAIN old[i]) \ (DOMAIN u) : new[i][k] = old[i][k]
              /\ \A j \in 1..Len(old) : j # i => new[j] = old[j]]_vars

\* C5: for every store state and every record r, add(r) lengthens the list
\* by exactly one, leaves every record stored before at its index and
\* unchanged, and makes r the last element.
C5_AddAppends ==
    [][IsCall(op', "add")
       => LET s == op'.self
              old == List(heap, data[s])
              new == List(heap', data'[s])
          IN  /\ Succeeded(ret')
              /\ Len(new) = Len(old) + 1
              /\ \A j \in 1..Len(old) : new[j] = old[j] /\ data'[s][j] = data[s][j]
              /\ new[Len(new)] = op'.args.entry]_vars

\* A record has just been added after a different one.
C5_Witness ==
    /\ IsCall(op, "add")
    /\ Succeeded(ret)
    /\ Len(data[1]) = 2
    /\ heap[data[1][2]] = op.args.entry
    /\ heap[data[1][1]] # heap[data[1][2]]

----------------------------------------------------------------------------
(* Claims about the queries (SpecQuery) *)

\* Entry e has, in its list listKey, a sub-entry whose nameKey is exactly x.
HasNamed(e, listKey, nameKey, x) ==
    /\ listKey \in DOMAIN e
    /\ \E q \in 1..Len(e[listKey]) :
           nameKey \in DOMAIN e[listKey][q] /\ e[listKey][q][nameKey] = x

\* Entry e satisfies every argument of a that counts as given.
SatisfiesAll(e, a, given(_)) ==
    /\ given(a.model) => HasNamed(e, "methods", "model_name", a.model)
    /\ given(a.dataset) => HasNamed(e, "datasets", "name", a.dataset)
    /\ given(a.metric) => HasNamed(e, "metrics", "name", a.metric)

NotAbsent(x) == x # None
NotAbsentNorEmpty(x) == x # None /\ x # ""

\* C6, as claimed: filter returns exactly the subsequence of the list, in
\* order, of the records that have, for every argument that is not absent,
\* whatever its value, a sub-entry of the matching list named exactly so.
C6_FilterEveryArgumentNotAbsent ==
    IsCall(op, "filter")
    => ret.val = SelectSeq(data[op.self],
                           LAMBDA r : SatisfiesAll(heap[r], op.args, NotAbsent))

\* C6, amended: the same with "every argument that is neither absent nor
\* the empty string"; an absent or empty argument matches every record.
C6_FilterEveryArgumentNotEmpty ==
    IsCall(op, "filter")
    => /\ Succeeded(ret)
       /\ ret.val = SelectSeq(data[op.self],
                      LAMBDA r : SatisfiesAll(heap[r], op.args, NotAbsentNorEmpty))

\* filter(model="M1", dataset="D1") has just returned the second of two
\* records only.
C6_Witness ==
    /\ IsCall(op, "filter")
    /\ op.args = [model |-> "M1", dataset |-> "D1", metric |-> None]
    /\ Len(data[1]) = 2
    /\ ret.val = <<data[1][2]>>

\* The non-empty names that the sub-entries of list listKey have under
\* nameKey, over all the records of list l.
DistinctNames(h, l, listKey, nameKey) ==
    {x \in Elems(NameOrder) :
        x # "" /\ \E j \in 1..Len(l) : HasNamed(h[l[j]], listKey, nameKey, x)}

StrictlyIncreasing(q) == \A i \in 1..(Len(q) - 1) : Rank(q[i]) < Rank(q[i + 1])

\* C7: list_fields returns three sequences, each strictly increasing (sorted,
\* without duplicates), whose elements are exactly the distinct non-empty
\* model_name values of the methods sub-entries, name values of the datasets
\* sub-entries and name values of the metrics sub-entries of all records; a
\* record without one of the lists adds nothing to it.
C7_ListFieldsSortedDistinct ==
    IsCall(op, "list_fields")
    => LET l == data[op.self]
       IN  /\ Succeeded(ret)
           /\ DOMAIN ret.val = {"models", "datasets", "metrics"}
           /\ \A f \in DOMAIN ret.val : StrictlyIncreasing(ret.val[f])
           /\ Elems(ret.val.models) = DistinctNames(heap, l, "methods", "model_name")
           /\ Elems(ret.val.datasets) = DistinctNames(heap, l, "datasets", "name")
           /\ Elems(ret.val.metrics) = DistinctNames(heap, l, "metrics", "name")

\* list_fields has just returned ["M1", "M2"] for a record that names M2
\* before M1 followed by one that names M1 again.
C7_Witness ==
    /\ IsCall(op, "list_fields")
    /\ Len(data[1]) = 2
    /\ heap[data[1][1]] =
           [title |-> "P3", methods |-> <<[model_name |-> "M2"], [model_name |-> "M1"]>>]
    /\ heap[data[1][2]] = P1
    /\ ret.val.models = <<"M1", "M2">>
    /\ ret.val.datasets = <<"D1">>

\* C10: in every store state list_fields and filter agree: a name is among
\* the models of list_fields if and only if it is non-empty and filter by
\* that model alone returns at least one record; likewise for the datasets
\* and the metrics.
C10_ListFieldsAgreesWithFilter ==
    LET l == data[1]
        fields == list_fields(heap, l)
    IN  \A x \in Elems(NameOrder) :
            /\ x \in Elems(fields.models)
                   <=> (x # "" /\ filter(heap, l, x, None, None) # <<>>)
            /\ x \in Elems(fields.datasets)
                   <=> (x # "" /\ filter(heap, l, None, x, None) # <<>>)
            /\ x \in Elems(fields.metrics)
                   <=> (x # "" /\ filter(heap, l, None, None, x) # <<>>)

\* filter(model="M2") has just returned a record, and M2 is among the
\* models of list_fields, in a store that also holds a record without M2.
C10_Witness ==
    /\ IsCall(op, "filter")
    /\ op.args = [model |-> "M2", dataset |-> None, metric |-> None]
    /\ Len(ret.val) = 1
    /\ Len(data[1]) = 2
    /\ "M2" \in Elems(list_fields(heap, data[1]).models)

----------------------------------------------------------------------------
(* Claims about two stores on one file (SpecTwo) *)

Mutating == {"add", "edit", "delete"}

\* The call op on list l is one the store accepts.
Accepted(o, l) == IsCall(o, "add") \/ ValidIndex(l, o.args.index)

\* C8: when two stores are constructed from the same file and each then
\* makes mutating calls, in any interleaving, no call raises because of the
\* other store, and after each call the file holds the whole list of the
\* store that wrote last: a record of the other store's list that the
\* writer's list does not hold is not in the file.
C8_LastWriterWins ==
    [][(op'.name \in Mutating /\ Accepted(op', data[op'.self]))
       => LET s == op'.self
              o == 3 - s
              written == load(file')
          IN  /\ Succeeded(ret')
              /\ Reloads(file', List(heap', data'[s]))
              /\ List(heap', data'[o]) = List(heap, data[o])
              /\ \A v \in Elems(List(heap', data'[o])) :
                     v \notin Elems(List(heap', data'[s]))
                         => v \notin Elems(written)]_vars

\* Store 1 holds a record it added; store 2 has written since, and the file
\* holds store 2's list, without that record.
C8_Witness ==
    /\ op.name \in Mutating
    /\ op.self = 2
    /\ Succeeded(ret)
    /\ P3 \in Elems(List(heap, data[1]))
    /\ P3 \notin Elems(load(file))
    /\ load(file) = List(heap, data[2])
    /\ load(file) # <<>>

----------------------------------------------------------------------------
(* Claims about the entry dialog (SpecGui) *)

\* json.loads raises on text t.
NotJson(t) == ~JsonLoads(t).ok

\* on_ok showed the error, left the dialog open with an empty result, and
\* nothing of the store changed.
Refused ==
    /\ ret' = Returned("showerror")
    /\ dlg'.open
    /\ dlg'.result = EmptyDict
    /\ UNCHANGED <<heap, data, file, listbox>>

\* Cancel closes the dialog and no add or edit is made.
CancelledWithoutCall ==
    IsCall(op', "on_cancel") => ~dlg'.open /\ UNCHANGED <<heap, data, file, listbox>>

\* C9, as claimed: pressing OK while the methods, datasets or metrics text
\* is not valid JSON shows a validation error, keeps the dialog open and
\* changes nothing; a Cancel after it issues no add or edit.
C9_NotJsonIsRefused ==
    [][/\ (IsCall(op', "on_ok") /\ \E f \in JsonFields : NotJson(op'.args[f]))
           => Refused
       /\ CancelledWithoutCall]_vars

\* C9, amended: the same for a text that is not blank and not valid JSON (a
\* blank text is read as the empty list).
C9_NotBlankNotJsonIsRefused ==
    [][/\ (IsCall(op', "on_ok")
           /\ \E f \in JsonFields : op'.args[f] # <<>> /\ NotJson(op'.args[f]))
           => Refused
       /\ CancelledWithoutCall]_vars

\* OK has just been pressed in the dialog of the Edit button with "[" for
\* the datasets and the methods as populated: the error was shown, the
\* dialog is open and its result empty.
C9_Witness ==
    /\ IsCall(op, "on_ok")
    /\ op.args.datasets = <<Punct("[")>>
    /\ op.args.methods = DumpSubList(R0.methods)
    /\ ret = Returned("showerror")
    /\ dlg.open
    /\ dlg.caller = "edit"
    /\ dlg.result = EmptyDict
    /\ List(heap, data[1]) = <<R0>>

====
